---------------------------- MODULE Spec2Model ----------------------------
(***************************************************************************)
(* Bounded-concurrency link validation of gnb.py / shop.py                 *)
(* (check_link_validity) together with the URL helpers of utility/utils.py.*)
(*                                                                         *)
(* Strings are sequences of tokens; a token is either one punctuation      *)
(* character (":", "/", "?", "#", ";", " ") or a run of scheme characters  *)
(* (letters, digits, "+", "-", ".") that the code never splits.            *)
(* One action is one run of a coroutine from one await to the next.        *)
(***************************************************************************)
EXTENDS Integers, Sequences, FiniteSets, TLC

(***************************************************************************)
(* String helpers (Python str methods used by the code)                    *)
(***************************************************************************)
Punct == {":", "/", "?", "#", ";", " "}

\* Indices i >= from with s[i] = c
Positions(s, c, from) == {i \in from..Len(s) : s[i] = c}

Min(S) == CHOOSE x \in S : \A y \in S : x <= y
Max(S) == CHOOSE x \in S : \A y \in S : x >= y

\* str.find(c, from): 1-based index of the first occurrence, 0 when absent
Find(s, c, from) == IF Positions(s, c, from) = {} THEN 0 ELSE Min(Positions(s, c, from))

\* str.rfind(c): 1-based index of the last occurrence, 0 when absent
RFind(s, c) == IF Positions(s, c, 1) = {} THEN 0 ELSE Max(Positions(s, c, 1))

\* s[:n] and s[n:] with Python's 0-based slice bounds
Take(s, n) == SubSeq(s, 1, IF n < Len(s) THEN n ELSE Len(s))
Drop(s, n) == SubSeq(s, n + 1, Len(s))

\* str.startswith
StartsWith(s, p) == Len(s) >= Len(p) /\ SubSeq(s, 1, Len(p)) = p

\* str.rstrip(c)
RStrip(s, c) ==
  LET keep == {i \in 1..Len(s) : s[i] # c}
  IN IF keep = {} THEN <<>> ELSE SubSeq(s, 1, Max(keep))

\* str.lstrip(c)
LStrip(s, c) ==
  LET keep == {i \in 1..Len(s) : s[i] # c}
  IN IF keep = {} THEN <<>> ELSE SubSeq(s, Min(keep), Len(s))

\* str.strip() for the space character
Strip(s) == RStrip(LStrip(s, " "), " ")

\* str.replace(c, '')
RECURSIVE Remove(_, _)
Remove(s, c) ==
  IF s = <<>> THEN <<>>
  ELSE IF Head(s) = c THEN Remove(Tail(s), c)
  ELSE <<Head(s)>> \o Remove(Tail(s), c)

(***************************************************************************)
(* urllib.parse as used by utils.py                                        *)
(***************************************************************************)
\* schemes of urllib.parse.uses_netloc / uses_params that occur in the model
uses_netloc == {<<>>, <<"https">>, <<"http">>}
uses_params == {<<>>, <<"https">>, <<"http">>}

\* urllib.parse.urlsplit, last step: cut the query off at q
split_query_at(scheme, netloc, url, fragment, q) ==
  [scheme |-> scheme, netloc |-> netloc,
   path |-> IF q > 0 THEN Take(url, q - 1) ELSE url,
   query |-> IF q > 0 THEN Drop(url, q) ELSE <<>>,
   fragment |-> fragment]

\* "if '?' in url: url, query = url.split('?', 1)"
split_query(scheme, netloc, url, fragment) ==
  split_query_at(scheme, netloc, url, fragment, Find(url, "?", 1))

\* "if allow_fragments and '#' in url: url, fragment = url.split('#', 1)"
split_fragment_at(scheme, netloc, url, h) ==
  split_query(scheme, netloc,
              IF h > 0 THEN Take(url, h - 1) ELSE url,
              IF h > 0 THEN Drop(url, h) ELSE <<>>)

split_fragment(scheme, netloc, url) ==
  split_fragment_at(scheme, netloc, url, Find(url, "#", 1))

\* urllib.parse._splitnetloc: where the netloc that starts at index 3 ends
splitnetloc(url) ==
  LET delims == {k \in 3..Len(url) : url[k] \in {"/", "?", "#"}}
  IN IF delims = {} THEN Len(url) + 1 ELSE Min(delims)

split_netloc_at(scheme, url, netEnd) ==
  split_fragment(scheme, SubSeq(url, 3, netEnd - 1), Drop(url, netEnd - 1))

\* "if url[:2] == '//': netloc, url = _splitnetloc(url, 2)"
split_netloc(scheme, url) ==
  IF StartsWith(url, <<"/", "/">>)
  THEN split_netloc_at(scheme, url, splitnetloc(url))
  ELSE split_fragment(scheme, <<>>, url)

\* "i = url.find(':')": the part before it is a scheme when it has only
\* scheme characters
split_scheme_at(url, i) ==
  IF /\ i > 1
     /\ url[1] \notin Punct
     /\ \A k \in 1..(i - 1) : url[k] \notin Punct
  THEN split_netloc(Take(url, i - 1), Drop(url, i))
  ELSE split_netloc(<<>>, url)

\* urllib.parse.urlsplit
urlsplit(u) == split_scheme_at(LStrip(u, " "), Find(LStrip(u, " "), ":", 1))

\* urllib.parse._splitparams: index of the ";" that starts the params, 0 = none
splitparams(url) ==
  IF Find(url, "/", 1) > 0
  THEN Find(url, ";", RFind(url, "/"))
  ELSE Find(url, ";", 1)

\* urlparse: "url, params = _splitparams(url)" at index i, 0 = no params
parse_params_at(sp, i) ==
  [scheme |-> sp.scheme, netloc |-> sp.netloc,
   path |-> IF i > 0 THEN Take(sp.path, i - 1) ELSE sp.path,
   params |-> IF i > 0 THEN Drop(sp.path, i) ELSE <<>>,
   query |-> sp.query, fragment |-> sp.fragment]

\* urlparse: "if scheme in uses_params and ';' in url"
parse_params(sp) ==
  parse_params_at(sp, IF sp.scheme \in uses_params /\ Find(sp.path, ";", 1) > 0
                      THEN splitparams(sp.path) ELSE 0)

\* urllib.parse.urlparse
urlparse(u) == parse_params(urlsplit(u))

\* urlunsplit: prepend "//netloc" and the scheme
unsplit_netloc(scheme, netloc, path) ==
  IF netloc # <<>> \/ (scheme # <<>> /\ scheme \in uses_netloc
                       /\ ~StartsWith(path, <<"/", "/">>))
  THEN <<"/", "/">> \o netloc
       \o (IF path # <<>> /\ Head(path) # "/" THEN <<"/">> ELSE <<>>)
       \o path
  ELSE path

\* urllib.parse.urlunsplit
urlunsplit(scheme, netloc, path, query, fragment) ==
  (IF scheme # <<>> THEN scheme \o <<":">> ELSE <<>>)
  \o unsplit_netloc(scheme, netloc, path)
  \o (IF query # <<>> THEN <<"?">> \o query ELSE <<>>)
  \o (IF fragment # <<>> THEN <<"#">> \o fragment ELSE <<>>)

\* urllib.parse.urlunparse
urlunparse(scheme, netloc, path, params, query, fragment) ==
  urlunsplit(scheme, netloc,
             IF params # <<>> THEN path \o <<";">> \o params ELSE path,
             query, fragment)

(***************************************************************************)
(* utility/utils.py                                                        *)
(***************************************************************************)
\* the last two lines of standardize_url without the rstrip('/')
normalize_parsed_KeepSlash(parsed) ==
  urlunparse(parsed.scheme, parsed.netloc, parsed.path,
             parsed.params, parsed.query, parsed.fragment)

\* standardize_url: "normalized_path = parsed.path.rstrip('/')" and urlunparse
normalize_parsed(parsed) ==
  urlunparse(parsed.scheme, parsed.netloc, RStrip(parsed.path, "/"),
             parsed.params, parsed.query, parsed.fragment)

\* standardize_url: drop the trailing slashes of the path
standardize_url(url) == normalize_parsed(urlparse(url))

\* refine_url that does not add the leading "/" of a relative path
refine_stripped_NoSlash(u, base_domain) ==
  IF StartsWith(u, <<"/", "/">>)
  THEN (IF urlparse(base_domain).scheme # <<>>
        THEN urlparse(base_domain).scheme ELSE <<"https">>) \o <<":">> \o u
  ELSE IF urlparse(u).netloc = <<>>
       THEN RStrip(base_domain, "/") \o u
       ELSE u

\* refine_url after strip() and replace(' ', '')
refine_stripped(u, base_domain) ==
  IF StartsWith(u, <<"/", "/">>)
  THEN (IF urlparse(base_domain).scheme # <<>>
        THEN urlparse(base_domain).scheme ELSE <<"https">>) \o <<":">> \o u
  ELSE IF urlparse(u).netloc = <<>>
       THEN RStrip(base_domain, "/")
            \o (IF ~StartsWith(u, <<"/">>) THEN <<"/">> \o u ELSE u)
       ELSE u

\* refine_url: make a url without a host absolute against base_domain
refine_url(url, base_domain) ==
  IF url = <<>> THEN url
  ELSE refine_stripped(Remove(Strip(url), " "), base_domain)

(***************************************************************************)
(* Bounds and program constants                                            *)
(***************************************************************************)
MaxNodes == 2          \* nodes in the menu tree
MaxConcurrent == 2     \* largest LINKVALIDATE_COUNT tried
MaxCloseFailures == 1  \* calls of close() outside the exception handler that raise
MaxTail == 3           \* tokens of a url argument after its prefix

max_retries == 5       \* validate_node(..., max_retries: int = 5)
DefaultConcurrent == 2 \* os.getenv("LINKVALIDATE_COUNT", 2)

NodeIds == 1..MaxNodes

\* page.url of the page the tree was extracted from
PageUrl == <<"https", ":", "/", "/", "example.com", "/", "uk", "/">>

\* urls the extractor may have put on a node ("" = no link)
U_SHOP == <<"/", "uk", "/", "shop", "/">>
U_OTHER == <<"/", "/", "other.com", "/", "page">>
NodeUrls == {<<>>, U_SHOP, U_OTHER}
\* urls on the nodes of the validated trees
TreeUrls == {<<>>, U_SHOP}
\* a url that is empty after trimming
U_BLANK == <<" ", " ">>
BlankUrls == {<<>>, U_BLANK}

\* what the caller may have left in link_validate_desc of a node without url
CallerDescs == {<<>>, <<"not applicable">>}

\* where a redirect may lead
U_LOGIN == <<"https", ":", "/", "/", "example.com", "/", "login">>

\* values of the environment variable LINKVALIDATE_COUNT
Digits == <<"0", "1", "2", "3", "4", "5", "6", "7", "8", "9">>
EnvUnset == [isset |-> FALSE, val |-> <<>>]
EnvValues == {EnvUnset, [isset |-> TRUE, val |-> <<"x">>],
              [isset |-> TRUE, val |-> <<"-", "1">>]}
             \cup {[isset |-> TRUE, val |-> <<Digits[k + 1]>>] :
                      k \in (0..MaxConcurrent) \ {DefaultConcurrent}}

\* str(int) for the status codes and small numbers that occur
ToStr(i) ==
  CASE i = 200 -> <<"200">>
    [] i = 404 -> <<"404">>
    [] i = -1 -> <<"-1">>
    [] i \in 0..9 -> <<Digits[i + 1]>>

\* int(str): the value, or "ValueError" when the text is not a decimal number
RECURSIVE DecValue(_, _)
DecValue(s, acc) ==
  IF s = <<>> THEN acc
  ELSE LET d == {k \in 0..9 : Digits[k + 1] = Head(s)}
       IN DecValue(Tail(s), 10 * acc + (CHOOSE k \in d : TRUE))
IsDecimal(s) == s # <<>> /\ \A i \in 1..Len(s) : \E k \in 1..10 : Digits[k] = s[i]
ParseInt(s) ==
  LET neg == s # <<>> /\ Head(s) = "-"
      body == IF neg THEN Tail(s) ELSE s
  IN [ok |-> IsDecimal(body),
      value |-> IF IsDecimal(body)
                THEN (IF neg THEN 0 - DecValue(body, 0) ELSE DecValue(body, 0))
                ELSE 0]

\* exception messages of the Playwright calls
MSG_TIMEOUT == <<"Timeout exceeded">>
MSG_CLOSED == <<"Target closed">>

\* the formatted descriptions validate_node writes
DescEmpty == <<>>
DescEmptyUrl == <<"[Status:", "-1", "] Empty url">>
DescL0 == <<"L0 has no link by design">>
DescL1 == <<"Has no link">>
DescNoResponse == <<"No response">>
DescRedirect(url) == <<"Redirected to ">> \o url
DescHttp(code) == <<"HTTP ">> \o ToStr(code)
DescException(msg) == <<"Exception: ">> \o msg

(***************************************************************************)
(* State                                                                   *)
(***************************************************************************)
VARIABLES
  module,      \* "gnb" or "shop": which check_link_validity runs
  env,         \* LINKVALIDATE_COUNT in the environment
  roots,       \* the caller's list of root nodes
  nodes,       \* node id -> GnbMenuNode / ShopMenuNode object
  caller,      \* node id -> result fields the caller passed in (history)
  cpc,         \* position of check_link_validity
  interrupted, \* the wait in queue.join() was interrupted
  queue,       \* asyncio.Queue items, head first
  unfinished,  \* asyncio.Queue._unfinished_tasks
  workers,     \* worker id -> task state
  open_pages,  \* pages opened by context.new_page() and not yet closed
  close_failures, \* calls of close() outside the handler that raised (history)
  handed,      \* node id -> times queue.get() returned it (history)
  attempts,    \* node id -> passes through the retry loop (history)
  outcome,     \* node id -> how validate_node left it (history)
  u_url,       \* utils.py called on its own: the url argument
  u_base,      \* utils.py called on its own: the base_domain argument
  u_ret        \* utils.py called on its own: the calls made and what they returned

\* the state of a run of check_link_validity
pvars == <<module, env, roots, nodes, caller, cpc, interrupted, queue,
           unfinished, workers, open_pages, close_failures, handed, attempts, outcome>>
\* the state of a direct use of utils.py
uvars == <<u_url, u_base, u_ret>>

vars == <<module, env, roots, nodes, caller, cpc, interrupted, queue,
          unfinished, workers, open_pages, close_failures, handed, attempts, outcome,
          u_url, u_base, u_ret>>

\* result fields of a node object
Fields(nd) == [link_status |-> nd.link_status,
               link_validate |-> nd.link_validate,
               link_validate_desc |-> nd.link_validate_desc]

\* GnbMenuNode.__init__ / ShopMenuNode.__init__
NewNode(node_type, url, children) ==
  [node_type |-> node_type, name |-> <<"menu">>, url |-> url,
   children |-> children,
   link_status |-> -1, link_validate |-> FALSE, link_validate_desc |-> <<>>]

(***************************************************************************)
(* Trees the extractor can hand over: parent[n] < n, children in id order, *)
(* node_type by depth (L0 roots, L1 below them, Featured further down)     *)
(***************************************************************************)
Parents == {p \in [NodeIds -> 0..(MaxNodes - 1)] : \A n \in NodeIds : p[n] < n}

RECURSIVE SortedSeq(_)
SortedSeq(S) == IF S = {} THEN <<>> ELSE <<Min(S)>> \o SortedSeq(S \ {Min(S)})

ChildrenOf(p, n) == SortedSeq({c \in NodeIds : p[c] = n})

Depth(p, n) == IF p[n] = 0 THEN 0 ELSE IF p[p[n]] = 0 THEN 1 ELSE 2
TypeAt(d) == IF d = 0 THEN "L0" ELSE IF d = 1 THEN "L1" ELSE "Featured"

(***************************************************************************)
(* check_link_validity: queue construction                                 *)
(***************************************************************************)
\* a flatten_with_link that takes every node
HasLink_Always(m, nd) == TRUE

\* the test "if node.url [or node.node_type in ("L0", "L1")]" of flatten_with_link
HasLink(m, nd) ==
  IF m = "gnb" THEN nd.url # <<>>
  ELSE nd.url # <<>> \/ nd.node_type \in {"L0", "L1"}

\* flatten_with_link without the recursion into node.children
flatten_with_link_NoChildren(m, nds, n) ==
  IF HasLink(m, nds[n]) THEN <<n>> ELSE <<>>

\* a queue that holds every flattened node twice
Enqueue_Twice(all_nodes) ==
  [i \in 1..(2 * Len(all_nodes)) |->
     [node |-> all_nodes[(i + 1) \div 2], idx |-> i, total |-> 2 * Len(all_nodes)]]

\* flatten_with_link(node), and the loop "for root in nodes: all_nodes.extend(...)"
RECURSIVE flatten_with_link(_, _, _), flatten_all(_, _, _)
flatten_with_link(m, nds, n) ==
  (IF HasLink(m, nds[n]) THEN <<n>> ELSE <<>>) \o flatten_all(m, nds, nds[n].children)
\* the loop over a list of nodes taken from its end
flatten_all_Reversed(m, nds, ns) ==
  IF ns = <<>> THEN <<>>
  ELSE flatten_all(m, nds, Tail(ns)) \o flatten_with_link(m, nds, Head(ns))

flatten_all(m, nds, ns) ==
  IF ns = <<>> THEN <<>>
  ELSE flatten_with_link(m, nds, Head(ns)) \o flatten_all(m, nds, Tail(ns))

\* "for idx, node in enumerate(all_nodes, 1): await queue.put((node, idx, total))"
Enqueue(all_nodes) ==
  [i \in 1..Len(all_nodes) |->
     [node |-> all_nodes[i], idx |-> i, total |-> Len(all_nodes)]]

\* int(os.getenv("LINKVALIDATE_COUNT")), without the default
max_concurrent_NoDefault(e) == ParseInt(e.val)

\* int(os.getenv("LINKVALIDATE_COUNT", 2))
max_concurrent(e) ==
  IF e.isset THEN ParseInt(e.val) ELSE [ok |-> TRUE, value |-> DefaultConcurrent]

(***************************************************************************)
(* Worker tasks                                                            *)
(***************************************************************************)
NoResponse == [present |-> FALSE, status |-> 0, url |-> <<>>]
Response(status, url) == [present |-> TRUE, status |-> status, url |-> url]

\* a task made by asyncio.create_task(worker(i+1)) that has not run yet
NewTask == [pc |-> "created", node |-> 0, retries |-> 0, status_code |-> -1,
            new_page |-> FALSE, page_open |-> FALSE, refined |-> <<>>,
            response |-> NoResponse, must_cancel |-> FALSE]

\* a task outside validate_node: suspended in queue.get(), or ended; the
\* locals of validate_node are gone
TaskAt(pc) == [NewTask EXCEPT !.pc = pc]

\* pcs at which a worker is inside validate_node, suspended in an await
InAttempt == {"new_page", "goto", "wait", "close", "close_nr", "hclose"}
\* pcs of a task that has ended
Ended == {"done", "cancelled", "failed"}

\* the shared state a worker step reads and writes
State == [nodes |-> nodes, queue |-> queue, unfinished |-> unfinished,
          workers |-> workers, open_pages |-> open_pages,
          close_failures |-> close_failures, handed |-> handed,
          attempts |-> attempts, outcome |-> outcome]

Commit(st) ==
  /\ nodes' = st.nodes
  /\ queue' = st.queue
  /\ unfinished' = st.unfinished
  /\ workers' = st.workers
  /\ open_pages' = st.open_pages
  /\ close_failures' = st.close_failures
  /\ handed' = st.handed
  /\ attempts' = st.attempts
  /\ outcome' = st.outcome

\* base_url = f"{urlparse(page.url).scheme}://{urlparse(page.url).netloc}"
base_url == urlparse(PageUrl).scheme \o <<":", "/", "/">> \o urlparse(PageUrl).netloc

\* validate_node up to its first await: the reset of the result fields and
\* the early returns for a node without url
ResetFields(nd) ==
  [nd EXCEPT !.link_validate = FALSE, !.link_status = -1,
             !.link_validate_desc = DescEmpty]

\* early returns that mark every node without url as valid
SkipFields_Valid(m, nd) ==
  [nd EXCEPT !.link_validate = TRUE, !.link_status = -1,
             !.link_validate_desc = DescL0]

\* the early returns of validate_node for a node without url
SkipFields(m, nd) ==
  IF m = "shop" /\ nd.node_type = "L0"
  THEN [nd EXCEPT !.link_validate = TRUE, !.link_status = -1,
                  !.link_validate_desc = DescL0]
  ELSE IF m = "shop" /\ nd.node_type = "L1"
  THEN [nd EXCEPT !.link_validate = FALSE, !.link_status = -1,
                  !.link_validate_desc = DescL1]
  ELSE [nd EXCEPT !.link_validate_desc = DescEmptyUrl]

\* a worker that never marks its item done
task_done_Forgotten(st) == st

\* queue.task_done()
task_done(st) == [st EXCEPT !.unfinished = @ - 1]

\* "new_page = None; new_page = await context.new_page()": a pass of the
\* retry loop begins and suspends in new_page()
BeginAttempt(st, w) ==
  LET n == st.workers[w].node
  IN [st EXCEPT !.workers[w].pc = "new_page",
                !.workers[w].new_page = FALSE,
                !.workers[w].response = NoResponse,
                !.attempts[n] = @ + 1]

\* the worker's "while True" from queue.get() on: items whose validate_node
\* returns without awaiting are finished on the spot; the worker suspends in
\* queue.get() on an empty queue or in the first new_page() of a node
RECURSIVE worker_loop(_, _, _)
worker_loop(m, st, w) ==
  IF st.queue = <<>>
  THEN [st EXCEPT !.workers[w] = TaskAt("get")]
  ELSE LET n   == Head(st.queue).node
           st1 == [st EXCEPT !.queue = Tail(@), !.handed[n] = @ + 1,
                             !.nodes[n] = ResetFields(@)]
       IN IF st1.nodes[n].url = <<>>
          THEN worker_loop(m, task_done([st1 EXCEPT !.nodes[n] = SkipFields(m, @),
                                                    !.outcome[n] = "skipped"]), w)
          ELSE BeginAttempt([st1 EXCEPT !.workers[w].node = n,
                                        !.workers[w].retries = 0,
                                        !.workers[w].status_code = -1,
                                        !.outcome[n] = "running"], w)

\* validate_node returned: "finally: queue.task_done()", then the loop again
validator_returns(m, st, w, how) ==
  worker_loop(m, task_done([st EXCEPT !.outcome[st.workers[w].node] = how]), w)

\* the retry loop with the test "retries <= max_retries"
next_attempt_OffByOne(m, st, w) ==
  LET n == st.workers[w].node
      st1 == [st EXCEPT !.workers[w].retries = @ + 1]
  IN IF st1.workers[w].retries <= max_retries
     THEN BeginAttempt(st1, w)
     ELSE validator_returns(m,
            [st1 EXCEPT !.nodes[n].link_status = st1.workers[w].status_code],
            w, "exhausted")

\* "retries += 1", the loop test, and after the loop
\* "node.link_status = status_code" and the return
next_attempt(m, st, w) ==
  LET n == st.workers[w].node
      st1 == [st EXCEPT !.workers[w].retries = @ + 1]
  IN IF st1.workers[w].retries < max_retries
     THEN BeginAttempt(st1, w)
     ELSE validator_returns(m,
            [st1 EXCEPT !.nodes[n].link_status = st1.workers[w].status_code],
            w, "exhausted")

(***************************************************************************)
(* validate_node: one pass of the retry loop                               *)
(***************************************************************************)
\* the block under "if response:" without the description of a non-200 status
Classify_NoHttpDesc(nd, refined, response) ==
  IF response.status = 200
  THEN [nd EXCEPT !.link_status = response.status,
                  !.link_validate_desc =
                     IF standardize_url(refined) # standardize_url(response.url)
                     THEN DescRedirect(response.url) ELSE DescEmpty,
                  !.link_validate = TRUE]
  ELSE [nd EXCEPT !.link_status = response.status]

\* the block under "if response:": status, description and verdict
Classify(nd, refined, response) ==
  IF response.status = 200
  THEN [nd EXCEPT !.link_status = response.status,
                  !.link_validate_desc =
                     IF standardize_url(refined) # standardize_url(response.url)
                     THEN DescRedirect(response.url) ELSE DescEmpty,
                  !.link_validate = TRUE]
  ELSE [nd EXCEPT !.link_status = response.status,
                  !.link_validate_desc = DescHttp(response.status)]

\* a no-response branch that also clears the name of the node
ClassifyNoResponse_Rename(nd) ==
  [nd EXCEPT !.link_validate_desc = DescNoResponse, !.name = <<>>]

\* the block under "else:" of "if response:"
ClassifyNoResponse(nd) == [nd EXCEPT !.link_validate_desc = DescNoResponse]

\* close() that leaves the page open
page_closed_Leak(st, w) == st

\* a call of new_page.close() has ended (by returning or by raising): the
\* page no longer counts as open
page_closed(st, w) ==
  IF st.workers[w].page_open
  THEN [st EXCEPT !.workers[w].page_open = FALSE, !.open_pages = @ - 1]
  ELSE st

\* close() raised
close_raises(st, w) == [page_closed(st, w) EXCEPT !.close_failures = @ + 1]

\* a worker without "finally: queue.task_done()"
validator_raises_NoFinally(st, w) ==
  [st EXCEPT !.outcome[st.workers[w].node] = "raised",
             !.workers[w] = TaskAt("failed")]

\* an exception escapes validate_node: the worker's "finally" marks the item
\* done and the task ends with the exception
validator_raises(st, w) ==
  task_done([st EXCEPT !.outcome[st.workers[w].node] = "raised",
                       !.workers[w] = TaskAt("failed")])

\* an exception handler that writes the description and raises again
except_handler_Reraise(m, st, w, msg, defect) ==
  validator_raises([st EXCEPT !.nodes[st.workers[w].node].link_validate_desc =
                                 DescException(msg)], w)

\* "except Exception as e": the description, then close() of the page if one
\* was opened; with defect = TRUE the handler itself raises after writing the
\* description
except_handler(m, st, w, msg, defect) ==
  LET n   == st.workers[w].node
      st1 == [st EXCEPT !.nodes[n].link_validate_desc = DescException(msg)]
  IN IF defect THEN validator_raises(st1, w)
     ELSE IF st1.workers[w].new_page
     THEN [st1 EXCEPT !.workers[w].pc = "hclose"]
     ELSE next_attempt(m, st1, w)

\* what goto() can return for a request of url
FinalUrls(url) == {RStrip(url, "/"), U_LOGIN}
Responses(url) == {Response(200, f) : f \in FinalUrls(url)} \cup {Response(404, url)}

\* The event loop runs its ready callbacks first in, first out: when
\* check_link_validity suspends in queue.join() the first steps of the tasks
\* are ready in the order of create_task, ahead of every completion and of
\* the delivery of an interrupt.
AllStarted == \A v \in DOMAIN workers : workers[v].pc # "created"

\* a worker task resumes from the await pc, not cancelled
Runs(w, pc) ==
  /\ cpc \in {"join", "gather"}
  /\ w \in DOMAIN workers
  /\ workers[w].pc = pc
  /\ ~workers[w].must_cancel
  /\ IF pc = "created"
     THEN \A v \in 1..(w - 1) : workers[v].pc # "created"
     ELSE AllStarted

\* first run of the task: "while True: node, idx, total = await queue.get()"
WorkerStart(w) ==
  /\ Runs(w, "created")
  /\ Commit(worker_loop(module, State, w))
  /\ UNCHANGED uvars
  /\ UNCHANGED <<module, env, roots, caller, cpc, interrupted>>

\* context.new_page() ends; then refine_url and the call of goto()
NewPageDone(w) ==
  /\ Runs(w, "new_page")
  /\ \/ Commit([State EXCEPT !.workers[w].new_page = TRUE,
                             !.workers[w].page_open = TRUE,
                             !.open_pages = @ + 1,
                             !.workers[w].refined =
                                refine_url(nodes[workers[w].node].url, base_url),
                             !.workers[w].pc = "goto"])
     \/ Commit(except_handler(module, State, w, MSG_TIMEOUT, FALSE))
  /\ UNCHANGED uvars
  /\ UNCHANGED <<module, env, roots, caller, cpc, interrupted>>

\* new_page.goto(refined, timeout=20000) ends; then the call of wait_for_selector
GotoDone(w) ==
  /\ Runs(w, "goto")
  /\ \/ \E r \in Responses(workers[w].refined) \cup {NoResponse} :
          Commit([State EXCEPT !.workers[w].response = r,
                               !.workers[w].pc = "wait"])
     \/ Commit(except_handler(module, State, w, MSG_TIMEOUT, FALSE))
  /\ UNCHANGED uvars
  /\ UNCHANGED <<module, env, roots, caller, cpc, interrupted>>

\* new_page.wait_for_selector("body", timeout=20000) ends; then the
\* classification of the response and the call of close()
WaitDone(w) ==
  /\ Runs(w, "wait")
  /\ LET n == workers[w].node
         r == workers[w].response
     IN \/ /\ r.present
           /\ Commit([State EXCEPT !.workers[w].status_code = r.status,
                                   !.nodes[n] = Classify(@, workers[w].refined, r),
                                   !.workers[w].pc = "close"])
        \/ /\ ~r.present
           /\ Commit([State EXCEPT !.nodes[n] = ClassifyNoResponse(@),
                                   !.workers[w].pc = "close_nr"])
        \/ Commit(except_handler(module, State, w, MSG_TIMEOUT, FALSE))
  /\ UNCHANGED uvars
  /\ UNCHANGED <<module, env, roots, caller, cpc, interrupted>>

\* close() after a response ends: "return", or the exception handler
CloseDone(w) ==
  /\ Runs(w, "close")
  /\ \/ Commit(validator_returns(module, page_closed(State, w), w,
                 IF workers[w].response.status = 200 THEN "succeeded" ELSE "http"))
     \/ /\ close_failures < MaxCloseFailures
        /\ Commit(except_handler(module, close_raises(State, w), w, MSG_CLOSED, FALSE))
  /\ UNCHANGED uvars
  /\ UNCHANGED <<module, env, roots, caller, cpc, interrupted>>

\* close() after "No response" ends: "retries += 1", or the exception handler
CloseNoResponseDone(w) ==
  /\ Runs(w, "close_nr")
  /\ \/ Commit(next_attempt(module, page_closed(State, w), w))
     \/ /\ close_failures < MaxCloseFailures
        /\ Commit(except_handler(module, close_raises(State, w), w, MSG_CLOSED, FALSE))
  /\ UNCHANGED uvars
  /\ UNCHANGED <<module, env, roots, caller, cpc, interrupted>>

\* close() inside the exception handler ends (an exception is swallowed):
\* "retries += 1"
HandlerCloseDone(w) ==
  /\ Runs(w, "hclose")
  /\ Commit(next_attempt(module, page_closed(State, w), w))
  /\ UNCHANGED uvars
  /\ UNCHANGED <<module, env, roots, caller, cpc, interrupted>>

\* goto() or wait_for_selector() raises and the exception handler itself
\* fails after writing the description (a defect of validate_node): the
\* exception leaves validate_node and ends the worker task
HandlerRaises(w) ==
  /\ \/ Runs(w, "goto")
     \/ Runs(w, "wait")
  /\ Commit(except_handler(module, State, w, MSG_TIMEOUT, TRUE))
  /\ UNCHANGED uvars
  /\ UNCHANGED <<module, env, roots, caller, cpc, interrupted>>

(***************************************************************************)
(* Cancellation of a worker task                                           *)
(***************************************************************************)
\* Task.cancel() on every worker: "for w in workers: w.cancel()"
cancel_all(ws) ==
  [w \in DOMAIN ws |->
     IF ws[w].pc \in Ended THEN ws[w] ELSE [ws[w] EXCEPT !.must_cancel = TRUE]]

\* a worker that catches the cancellation of an attempt and goes on with
\* its loop
WorkerCancelled_Swallowed(w) ==
  /\ cpc \in {"join", "gather"}
  /\ w \in DOMAIN workers
  /\ workers[w].must_cancel
  /\ workers[w].pc \notin Ended
  /\ IF workers[w].pc = "created"
     THEN Commit([State EXCEPT !.workers[w] = TaskAt("cancelled")])
     ELSE IF workers[w].pc = "get"
     THEN Commit([State EXCEPT !.workers[w] = TaskAt("done")])
     ELSE Commit(worker_loop(module,
                   task_done([State EXCEPT !.workers[w].must_cancel = FALSE,
                                           !.outcome[workers[w].node] = "abandoned"]),
                   w))
  /\ UNCHANGED uvars
  /\ UNCHANGED <<module, env, roots, caller, cpc, interrupted>>

\* CancelledError is thrown into the task at the await it is suspended in:
\*  - a task that never ran ends cancelled;
\*  - in queue.get() the worker catches it and leaves its loop;
\*  - inside validate_node it is no Exception, so no handler of validate_node
\*    runs; the worker's "finally" calls task_done() and the task ends
\*    cancelled, its page left as it is
WorkerCancelled(w) ==
  /\ cpc \in {"join", "gather"}
  /\ w \in DOMAIN workers
  /\ workers[w].must_cancel
  /\ workers[w].pc \notin Ended
  /\ IF workers[w].pc = "created"
     THEN Commit([State EXCEPT !.workers[w] = TaskAt("cancelled")])
     ELSE IF workers[w].pc = "get"
     THEN Commit([State EXCEPT !.workers[w] = TaskAt("done")])
     ELSE Commit(task_done([State EXCEPT !.workers[w] = TaskAt("cancelled"),
                                         !.outcome[workers[w].node] = "abandoned"]))
  /\ UNCHANGED uvars
  /\ UNCHANGED <<module, env, roots, caller, cpc, interrupted>>

(***************************************************************************)
(* check_link_validity                                                     *)
(***************************************************************************)
\* from the call to the first suspension: int(os.getenv(...)) (ValueError
\* leaves the function), the queue, the tasks, and "await queue.join()",
\* which does not suspend when nothing was queued
Start ==
  /\ cpc = "call"
  /\ LET mc == max_concurrent(env)
         all_nodes == flatten_all(module, nodes, roots)
         tasks == [w \in 1..mc.value |-> NewTask]
     IN IF ~mc.ok
        THEN /\ cpc' = "raised"
             /\ UNCHANGED <<queue, unfinished, workers>>
        ELSE /\ queue' = Enqueue(all_nodes)
             /\ unfinished' = Len(all_nodes)
             /\ IF Len(all_nodes) > 0
                THEN cpc' = "join" /\ workers' = tasks
                ELSE cpc' = "gather" /\ workers' = cancel_all(tasks)
  /\ UNCHANGED uvars
  /\ UNCHANGED <<module, env, roots, nodes, caller, interrupted, open_pages, close_failures,
                 handed, attempts, outcome>>

\* a join() that returns as soon as the queue is empty
JoinReturns_Early ==
  /\ cpc = "join"
  /\ queue = <<>>
  /\ AllStarted
  /\ cpc' = "gather"
  /\ workers' = cancel_all(workers)
  /\ UNCHANGED uvars
  /\ UNCHANGED <<module, env, roots, nodes, caller, interrupted, queue,
                 unfinished, open_pages, close_failures, handed, attempts, outcome>>

\* queue.join() returns once every queued item was marked done; "finally"
\* cancels the workers and awaits them. The wake-up of join() is scheduled
\* by the last task_done(), behind the first steps of the tasks.
JoinReturns ==
  /\ cpc = "join"
  /\ unfinished = 0
  /\ AllStarted
  /\ cpc' = "gather"
  /\ workers' = cancel_all(workers)
  /\ UNCHANGED uvars
  /\ UNCHANGED <<module, env, roots, nodes, caller, interrupted, queue,
                 unfinished, open_pages, close_failures, handed, attempts, outcome>>

\* an interrupt that puts the result fields of every node back
Interrupt_Rollback ==
  /\ cpc = "join"
  /\ AllStarted
  /\ interrupted' = TRUE
  /\ cpc' = "gather"
  /\ workers' = cancel_all(workers)
  /\ nodes' = [n \in NodeIds |-> ResetFields(nodes[n])]
  /\ UNCHANGED uvars
  /\ UNCHANGED <<module, env, roots, caller, queue, unfinished,
                 open_pages, close_failures, handed, attempts, outcome>>

\* the wait in queue.join() is interrupted (KeyboardInterrupt, or the
\* cancellation of the calling task): "finally" cancels the workers and
\* awaits them
Interrupt ==
  /\ cpc = "join"
  /\ AllStarted
  /\ interrupted' = TRUE
  /\ cpc' = "gather"
  /\ workers' = cancel_all(workers)
  /\ UNCHANGED uvars
  /\ UNCHANGED <<module, env, roots, nodes, caller, queue, unfinished,
                 open_pages, close_failures, handed, attempts, outcome>>

\* asyncio.gather(*workers, return_exceptions=True) returns when every
\* worker task has ended, and control goes back to the caller: by a return,
\* or after an interrupt with the exception that interrupted the wait
GatherReturns ==
  /\ cpc = "gather"
  /\ \A w \in DOMAIN workers : workers[w].pc \in Ended
  /\ cpc' = "returned"
  /\ UNCHANGED uvars
  /\ UNCHANGED <<module, env, roots, nodes, caller, interrupted, queue,
                 unfinished, workers, open_pages, close_failures, handed, attempts, outcome>>

(***************************************************************************)
(* Specification                                                           *)
(***************************************************************************)
\* the state at the call of check_link_validity on a tree whose nodes carry
\* urls of the set urls
InitWith(urls) ==
  /\ module \in {"gnb", "shop"}
  /\ env \in EnvValues
  /\ \E p \in Parents : \E u \in [NodeIds -> urls] :
       \* on a tree whose nodes all have a url shop.py runs as gnb.py does
       /\ module = "shop" => \E n \in NodeIds : u[n] = <<>>
       /\ roots = SortedSeq({n \in NodeIds : p[n] = 0})
       /\ \E d \in CallerDescs :
            nodes = [n \in NodeIds |->
                       IF u[n] = <<>>
                       THEN [NewNode(TypeAt(Depth(p, n)), u[n], ChildrenOf(p, n))
                               EXCEPT !.link_validate_desc = d]
                       ELSE NewNode(TypeAt(Depth(p, n)), u[n], ChildrenOf(p, n))]
  /\ caller = [n \in NodeIds |-> Fields(nodes[n])]
  /\ cpc = "call"
  /\ interrupted = FALSE
  /\ queue = <<>>
  /\ unfinished = 0
  /\ workers = <<>>
  /\ open_pages = 0
  /\ close_failures = 0
  /\ handed = [n \in NodeIds |-> 0]
  /\ attempts = [n \in NodeIds |-> 0]
  /\ outcome = [n \in NodeIds |-> "pending"]
  /\ u_url = <<>> /\ u_base = <<>> /\ u_ret = <<>>

Init == InitWith(TreeUrls)

WorkerIds == 1..(IF MaxConcurrent > DefaultConcurrent THEN MaxConcurrent
                ELSE DefaultConcurrent)

Next ==
  \/ Start
  \/ \E w \in WorkerIds : WorkerStart(w)
  \/ \E w \in WorkerIds : NewPageDone(w)
  \/ \E w \in WorkerIds : GotoDone(w)
  \/ \E w \in WorkerIds : WaitDone(w)
  \/ \E w \in WorkerIds : CloseDone(w)
  \/ \E w \in WorkerIds : CloseNoResponseDone(w)
  \/ \E w \in WorkerIds : HandlerCloseDone(w)
  \/ \E w \in WorkerIds : WorkerCancelled(w)
  \/ JoinReturns
  \/ Interrupt
  \/ GatherReturns

Spec == Init /\ [][Next]_vars

\* the same program with a validate_node whose exception handler can fail
NextDefect ==
  \/ Next
  \/ \E w \in WorkerIds : HandlerRaises(w)

SpecDefect == Init /\ [][NextDefect]_vars

\* every step of the program but the interrupt: the event loop runs each
\* task that is ready, and each call of the browser ends (by a result, an
\* error or its timeout of 20 s)
Progress ==
  \/ Start
  \/ \E w \in WorkerIds : WorkerStart(w)
  \/ \E w \in WorkerIds : NewPageDone(w)
  \/ \E w \in WorkerIds : GotoDone(w)
  \/ \E w \in WorkerIds : WaitDone(w)
  \/ \E w \in WorkerIds : CloseDone(w)
  \/ \E w \in WorkerIds : CloseNoResponseDone(w)
  \/ \E w \in WorkerIds : HandlerCloseDone(w)
  \/ \E w \in WorkerIds : WorkerCancelled(w)
  \/ JoinReturns
  \/ GatherReturns

\* the states in which a step of Progress is possible: check_link_validity
\* has not begun, queue.join() or gather() can return, or a worker task is
\* ready (resumable from its await, or with a cancellation to deliver)
ProgressEnabled ==
  \/ cpc = "call"
  \/ cpc = "join" /\ unfinished = 0 /\ AllStarted
  \/ cpc = "gather" /\ \A w \in DOMAIN workers : workers[w].pc \in Ended
  \/ /\ cpc \in {"join", "gather"}
     /\ \E w \in DOMAIN workers :
          \/ workers[w].must_cancel /\ workers[w].pc \notin Ended
          \/ \E pc \in InAttempt \cup {"created"} : Runs(w, pc)

\* weak fairness of Progress, WF_vars(Progress), written out by its
\* definition with ProgressEnabled for ENABLED <<Progress>>_vars
Fairness == ([]<>~ProgressEnabled) \/ ([]<><<Progress>>_vars)

\* the program under a scheduler that does not stop while a step is possible
SpecFair == Init /\ [][Next]_vars /\ Fairness

\* the same program on trees whose links may be a url of spaces only
InitBlank == InitWith(BlankUrls)
SpecBlank == InitBlank /\ [][Next]_vars

TypeOK ==
  /\ cpc \in {"call", "raised", "join", "gather", "returned"}
  /\ unfinished \in 0..MaxNodes
  /\ open_pages \in 0..(MaxNodes * max_retries)
  /\ \A w \in DOMAIN workers : workers[w].pc \in {"created", "get"} \cup InAttempt \cup Ended

(***************************************************************************)
(* utils.py called on its own                                              *)
(***************************************************************************)
\* the pieces urls are written with
UrlTokens == {"https", ":", "/", "?", "#", ";", " ", "a", "h.com"}

\* token sequences of at most n tokens
RECURSIVE TokenSeqs(_)
TokenSeqs(n) ==
  IF n = 0 THEN {<<>>}
  ELSE TokenSeqs(n - 1) \cup {<<t>> \o s : t \in UrlTokens, s \in TokenSeqs(n - 1)}

\* url arguments: nothing, an origin or a protocol-relative host, followed
\* by any tokens
UrlPrefixes == {<<>>, <<"https", ":", "/", "/", "h.com">>, <<"/", "/", "h.com">>}
UrlInputs == {p \o t : p \in UrlPrefixes, t \in TokenSeqs(MaxTail)}

\* base_domain arguments: an origin, with and without a trailing slash
BaseInputs == {<<"https", ":", "/", "/", "site.com">>,
               <<"http", ":", "/", "/", "site.com", "/">>}

\* no run of check_link_validity; the arguments of the calls are chosen
InitUtil ==
  /\ module = "gnb"
  /\ env = EnvUnset
  /\ roots = <<>>
  /\ nodes = <<>>
  /\ caller = <<>>
  /\ cpc = "utils"
  /\ interrupted = FALSE
  /\ queue = <<>>
  /\ unfinished = 0
  /\ workers = <<>>
  /\ open_pages = 0
  /\ close_failures = 0
  /\ handed = <<>>
  /\ attempts = <<>>
  /\ outcome = <<>>
  /\ u_url \in UrlInputs
  /\ u_base \in BaseInputs
  /\ u_ret = <<>>

\* refined = refine_url(url, base_url)
CallRefine ==
  /\ cpc = "utils"
  /\ u_ret = <<>>
  /\ u_ret' = <<[fn |-> "refine_url", arg |-> u_url,
                 value |-> refine_url(u_url, u_base)]>>
  /\ UNCHANGED <<u_url, u_base>>
  /\ UNCHANGED pvars

\* standardize_url(...) of the url, or of what the call before returned
CallStandardize ==
  /\ cpc = "utils"
  /\ Len(u_ret) < 2
  /\ LET arg == IF u_ret = <<>> THEN u_url ELSE u_ret[Len(u_ret)].value
     IN u_ret' = Append(u_ret, [fn |-> "standardize_url", arg |-> arg,
                                value |-> standardize_url(arg)])
  /\ UNCHANGED <<u_url, u_base>>
  /\ UNCHANGED pvars

NextUtil ==
  \/ CallRefine
  \/ CallStandardize

SpecUtil == InitUtil /\ [][NextUtil]_vars

(***************************************************************************)
(* The queue construction on its own, on larger trees                      *)
(***************************************************************************)
MaxTreeNodes == 4
TreeIds == 1..MaxTreeNodes
TreeParents == {p \in [TreeIds -> 0..(MaxTreeNodes - 1)] : \A n \in TreeIds : p[n] < n}

Reverse(s) == [i \in 1..Len(s) |-> s[Len(s) + 1 - i]]

\* the order in which the extractor stored a list of nodes
StoredOrder(S, ord) == IF ord = "asc" THEN SortedSeq(S) ELSE Reverse(SortedSeq(S))

\* check_link_validity is called on a tree of MaxTreeNodes nodes
InitFlatten ==
  /\ module \in {"gnb", "shop"}
  /\ env = EnvUnset
  /\ \E p \in TreeParents : \E u \in [TreeIds -> {<<>>, U_SHOP}] :
       \E ord \in {"asc", "desc"} :
         /\ roots = StoredOrder({n \in TreeIds : p[n] = 0}, ord)
         /\ nodes = [n \in TreeIds |->
                       NewNode(TypeAt(Depth(p, n)), u[n],
                               StoredOrder({c \in TreeIds : p[c] = n}, ord))]
  /\ caller = [n \in TreeIds |-> Fields(nodes[n])]
  /\ cpc = "flatten"
  /\ interrupted = FALSE
  /\ queue = <<>>
  /\ unfinished = 0
  /\ workers = <<>>
  /\ open_pages = 0
  /\ close_failures = 0
  /\ handed = [n \in TreeIds |-> 0]
  /\ attempts = [n \in TreeIds |-> 0]
  /\ outcome = [n \in TreeIds |-> "pending"]
  /\ u_url = <<>> /\ u_base = <<>> /\ u_ret = <<>>

\* "all_nodes = []; for root in nodes: all_nodes.extend(flatten_with_link(root))"
\* and the loop of queue.put
BuildQueue ==
  /\ cpc = "flatten"
  /\ queue' = Enqueue(flatten_all(module, nodes, roots))
  /\ unfinished' = Len(flatten_all(module, nodes, roots))
  /\ cpc' = "queued"
  /\ UNCHANGED uvars
  /\ UNCHANGED <<module, env, roots, nodes, caller, interrupted, workers, open_pages,
                 close_failures, handed, attempts, outcome>>

NextFlatten == BuildQueue

SpecFlatten == InitFlatten /\ [][NextFlatten]_vars

(***************************************************************************)
(* Properties                                                              *)
(***************************************************************************)
\* the concurrency of the run, once check_link_validity has started its pool
Started == cpc \in {"join", "gather", "returned"}
Concurrency == max_concurrent(env).value

\* occurrences of node n in the queue
InQueue(n) == Cardinality({i \in 1..Len(queue) : queue[i].node = n})

\* workers inside validate_node
Attempting == {w \in DOMAIN workers : workers[w].pc \in InAttempt}

\* C1: when check_link_validity has returned without an interrupt, every
\* node with a url was dequeued once and its validate_node run ended with a
\* verdict: link_validate true, or false with a non-empty description.
C1_Exhaustive ==
  (cpc = "returned" /\ ~interrupted) =>
    \A n \in NodeIds :
      nodes[n].url # <<>> =>
        /\ handed[n] = 1
        /\ outcome[n] \in {"succeeded", "http", "exhausted"}
        /\ nodes[n].link_validate \/ nodes[n].link_validate_desc # <<>>

\* C1 witness: an uninterrupted run has returned with one link exhausted
\* and another one valid
C1_Witness ==
  /\ cpc = "returned" /\ ~interrupted
  /\ \E n, k \in NodeIds :
       /\ outcome[n] = "exhausted" /\ ~nodes[n].link_validate
       /\ outcome[k] = "succeeded" /\ nodes[k].link_validate

\* C2: every queued node is handed out by queue.get() exactly once (it is in
\* the queue or was handed out once, never both, never twice), and no two
\* workers are inside validate_node for the same node.
C2_HandedOnce ==
  Started =>
    /\ \A n \in NodeIds :
         handed[n] + InQueue(n) = IF HasLink(module, nodes[n]) THEN 1 ELSE 0
    /\ \A v, w \in Attempting : workers[v].node = workers[w].node => v = w

\* C2 witness: two workers are inside validate_node at once, on two nodes
C2_Witness ==
  \E v, w \in Attempting :
    /\ v # w
    /\ workers[v].node # workers[w].node
    /\ handed[workers[v].node] = 1 /\ handed[workers[w].node] = 1

\* C3: the pool has exactly `concurrency` worker tasks from its start to the
\* return (none for a concurrency below 1), and for a concurrency of at least
\* 1 at most `concurrency` of them are inside validate_node and at most
\* `concurrency` pages are open.
C3_PoolSize ==
  Started =>
    /\ DOMAIN workers = 1..Concurrency
    /\ Concurrency >= 1 => /\ Cardinality(Attempting) <= Concurrency
                           /\ open_pages <= Concurrency

\* C3 witness: a pool of two workers has two pages open
C3_Witness ==
  /\ Started
  /\ Concurrency = 2
  /\ Cardinality(Attempting) = 2
  /\ open_pages = 2

\* C4: no node sees more than 5 passes of the retry loop, and a node whose
\* validate_node run gave up (every attempt failed) saw exactly 5.
C4_RetryBound ==
  \A n \in NodeIds :
    /\ attempts[n] <= 5
    /\ outcome[n] = "exhausted" => attempts[n] = 5

\* C4 witness: a node exhausted by attempts that ended in a timeout
C4_Witness ==
  \E n \in NodeIds :
    /\ outcome[n] = "exhausted"
    /\ attempts[n] = 5
    /\ nodes[n].link_validate_desc = DescException(MSG_TIMEOUT)
    /\ nodes[n].link_status = -1

C6_Original ==
  \A n \in NodeIds :
    (nodes[n].url # <<>> /\ nodes[n].link_validate) =>
      /\ nodes[n].link_status = 200
      /\ \/ nodes[n].link_validate_desc = <<>>
         \/ Head(nodes[n].link_validate_desc) = "Redirected to "

\* C7 as claimed: a node that was handed to a worker and is no longer inside
\* validate_node never has link_validate = false with an empty description.
C7_Original ==
  \A n \in NodeIds :
    (handed[n] >= 1 /\ outcome[n] # "running") =>
      ~(~nodes[n].link_validate /\ nodes[n].link_validate_desc = <<>>)

\* C8: when an attempt has classified a response with status 200 the node has
\* link_validate = true and link_status = 200; its description is empty when
\* the requested and the final url are equal up to trailing slashes, and
\* "Redirected to <final url>" otherwise. "/uk/shop/" is requested as
\* "https://example.com/uk/shop/".
C8_Success ==
  \A w \in DOMAIN workers :
    (workers[w].pc = "close" /\ workers[w].response.status = 200) =>
      LET nd == nodes[workers[w].node]
          r  == workers[w].refined
          f  == workers[w].response.url
      IN /\ nd.link_validate
         /\ nd.link_status = 200
         /\ nd.url = U_SHOP =>
              r = <<"https", ":", "/", "/", "example.com", "/", "uk", "/", "shop", "/">>
         /\ nd.link_validate_desc =
              IF RStrip(r, "/") = RStrip(f, "/") THEN <<>>
              ELSE <<"Redirected to ">> \o f

\* C8 witness: "/uk/shop/" answered with 200 at "https://example.com/uk/shop"
C8_Witness ==
  \E w \in DOMAIN workers :
    /\ workers[w].pc = "close"
    /\ workers[w].response =
         Response(200, <<"https", ":", "/", "/", "example.com", "/", "uk", "/", "shop">>)
    /\ nodes[workers[w].node].url = U_SHOP
    /\ Fields(nodes[workers[w].node]) =
         [link_status |-> 200, link_validate |-> TRUE, link_validate_desc |-> <<>>]

\* C9 as claimed: a node without url is never queued or handed out and keeps
\* the result fields the caller passed in.
C9_Original ==
  \A n \in NodeIds :
    nodes[n].url = <<>> =>
      /\ handed[n] = 0 /\ InQueue(n) = 0
      /\ Fields(nodes[n]) = caller[n]

\* C9 as amended: no attempt is made for a node without url. In gnb.py, and
\* in shop.py unless its node_type is L0 or L1, it is never queued and keeps
\* the caller's result fields. shop.py queues an L0 or L1 node without url
\* and its validate_node writes (true, -1, "L0 has no link by design") or
\* (false, -1, "Has no link").
C9_NoUrl ==
  \A n \in NodeIds :
    nodes[n].url = <<>> =>
      /\ attempts[n] = 0
      /\ IF module = "shop" /\ nodes[n].node_type \in {"L0", "L1"}
         THEN /\ outcome[n] = "pending" => Fields(nodes[n]) = caller[n]
              /\ outcome[n] # "pending" =>
                   /\ outcome[n] = "skipped"
                   /\ Fields(nodes[n]) =
                        IF nodes[n].node_type = "L0"
                        THEN [link_status |-> -1, link_validate |-> TRUE,
                              link_validate_desc |-> <<"L0 has no link by design">>]
                        ELSE [link_status |-> -1, link_validate |-> FALSE,
                              link_validate_desc |-> <<"Has no link">>]
         ELSE /\ handed[n] = 0 /\ InQueue(n) = 0
              /\ outcome[n] = "pending"
              /\ Fields(nodes[n]) = caller[n]

\* C9 witness: a run of gnb.py has returned, one link is valid and a node
\* without url still has the caller's "not applicable"
C9_Witness ==
  /\ module = "gnb" /\ cpc = "returned"
  /\ \E n, k \in NodeIds :
       /\ nodes[n].url = <<>>
       /\ nodes[n].link_validate_desc = <<"not applicable">>
       /\ outcome[k] = "succeeded"

\* C10 as claimed: no worker task is lost when validate_node raises; the
\* worker goes on to the next item.
C10_Original ==
  \A w \in DOMAIN workers : workers[w].pc # "failed"

\* C11: with a concurrency of at least 1, once check_link_validity has
\* started its pool it eventually returns, with every worker task ended;
\* without an interrupt the queue has drained by then and every item was
\* marked done.
C11_Returns ==
  (Started /\ Concurrency >= 1) ~>
     (/\ cpc = "returned"
      /\ \A w \in DOMAIN workers : workers[w].pc \in Ended
      /\ ~interrupted => (queue = <<>> /\ unfinished = 0))

\* C11 witness: two workers drained a queue of two links and the run returned
C11_Witness ==
  /\ cpc = "returned" /\ ~interrupted
  /\ Concurrency = 2 /\ DOMAIN workers = {1, 2}
  /\ queue = <<>> /\ unfinished = 0
  /\ \A n \in NodeIds : handed[n] = 1
  /\ \A w \in DOMAIN workers : workers[w].pc = "done"

\* C12: once the wait in queue.join() was interrupted no worker dequeues
\* another item, check_link_validity gives control back to its caller with
\* every worker task ended, and it does so eventually, with or without items
\* left in the queue.
C12_InterruptStops ==
  /\ [][interrupted => (handed' = handed /\ queue' = queue)]_vars
  /\ []((interrupted /\ cpc = "returned") =>
          \A w \in DOMAIN workers : workers[w].pc \in Ended)
  /\ interrupted ~> (cpc = "returned" /\ Attempting = {})

\* C12 witness: the interrupted run is over with an item still in the queue
\* and a worker cancelled inside an attempt
C12_Witness ==
  /\ interrupted /\ cpc = "returned"
  /\ queue # <<>>
  /\ \E n \in NodeIds : outcome[n] = "abandoned"
  /\ \E w \in DOMAIN workers : workers[w].pc = "cancelled"
  /\ \A w \in DOMAIN workers : workers[w].pc \in Ended

\* C13: once validate_node has left a node succeeded, failed with an HTTP
\* status or exhausted, no step changes its result fields, the interrupt and
\* the cancellation of the workers included.
C13_CommittedKept ==
  [][\A n \in NodeIds :
       outcome[n] \in {"succeeded", "http", "exhausted"} =>
         Fields(nodes'[n]) = Fields(nodes[n])]_vars

\* C13 witness: the run was interrupted with one node already valid and the
\* other one inside an attempt; the valid one is still valid after the return
C13_Witness ==
  /\ interrupted /\ cpc = "returned"
  /\ \E n, k \in NodeIds :
       /\ outcome[n] = "succeeded"
       /\ Fields(nodes[n]) = [link_status |-> 200, link_validate |-> TRUE,
                              link_validate_desc |-> <<>>]
       /\ outcome[k] = "abandoned"

\* C14 as claimed: no page opened by validate_node is open when the next
\* attempt starts or when check_link_validity has returned.
C14_Original ==
  /\ cpc = "returned" => open_pages = 0
  /\ \A w \in DOMAIN workers : workers[w].pc = "new_page" => ~workers[w].page_open

\* C15: no outcome of an attempt makes check_link_validity or a worker end
\* with an exception: check_link_validity raises only for a LINKVALIDATE_COUNT
\* that is not numeric, no validate_node run ends by raising, and a node left
\* failed carries the description of the failure.
C15_NoRaise ==
  /\ cpc = "raised" => (env.isset /\ env.val = <<"x">>)
  /\ \A w \in DOMAIN workers : workers[w].pc # "failed"
  /\ \A n \in NodeIds :
       /\ outcome[n] # "raised"
       /\ outcome[n] \in {"http", "exhausted"} => nodes[n].link_validate_desc # <<>>

\* C15 witness: a run returned with one node exhausted on "No response" and
\* another one answered 404
C15_Witness ==
  /\ cpc = "returned" /\ ~interrupted
  /\ \E n, k \in NodeIds :
       /\ outcome[n] = "exhausted"
       /\ nodes[n].link_validate_desc = <<"No response">>
       /\ outcome[k] = "http"

\* C16 as claimed: with LINKVALIDATE_COUNT unset or not numeric the pool
\* runs with 2 workers.
C16_Original ==
  ((~env.isset \/ env.val = <<"x">>) /\ cpc # "call") =>
    /\ cpc # "raised"
    /\ DOMAIN workers = 1..2

\* C16 as amended: the number of workers is int(LINKVALIDATE_COUNT), and 2
\* when the variable is unset; when its value is not numeric
\* check_link_validity raises before it queues a node or starts a worker.
C16_Concurrency ==
  /\ ~env.isset => cpc # "raised"
  /\ (Started /\ ~env.isset) => DOMAIN workers = 1..2
  /\ (Started /\ env.isset /\ env.val = <<"1">>) => DOMAIN workers = 1..1
  /\ (env.isset /\ env.val = <<"x">>) =>
       /\ cpc \in {"call", "raised"}
       /\ workers = <<>> /\ queue = <<>>
       /\ \A n \in NodeIds : Fields(nodes[n]) = caller[n]

\* C16 witness: LINKVALIDATE_COUNT=x, and check_link_validity has raised
C16_Witness ==
  /\ env.isset /\ env.val = <<"x">>
  /\ cpc = "raised"

\* C17 as claimed: with a configured concurrency below 1 and nodes to
\* validate check_link_validity ends with an error; it does not wait on a
\* queue that no worker serves.
C17_Original ==
  (env.isset /\ env.val \in {<<"0">>, <<"-", "1">>} /\ cpc # "call" /\ queue # <<>>) =>
    cpc = "raised"

\* C18 as claimed, for gnb.py: a node whose url is empty after trimming is
\* never queued or handed to a worker, no attempt is made for it, and when
\* the run has returned it is recorded as a failure with a description.
C18_Original ==
  \A n \in NodeIds :
    (module = "gnb" /\ Strip(nodes[n].url) = <<>>) =>
      /\ InQueue(n) = 0 /\ handed[n] = 0
      /\ attempts[n] = 0
      /\ (cpc = "returned" /\ ~interrupted) =>
           (~nodes[n].link_validate /\ nodes[n].link_validate_desc # <<>>)

\* the calls of refine_url made so far
RefineCalls == {i \in 1..Len(u_ret) : u_ret[i].fn = "refine_url"}

IsNotSpace(t) == t # " "
HasDoubleSlash(p) == \E i \in 1..(Len(p) - 1) : p[i] = "/" /\ p[i + 1] = "/"

C20_Original ==
  \A i \in RefineCalls :
    LET pin  == urlsplit(u_ret[i].arg)
        pout == urlsplit(u_ret[i].value)
    IN Strip(u_ret[i].arg) = u_ret[i].arg =>
         /\ pout.query = pin.query
         /\ pout.fragment = pin.fragment
         /\ HasDoubleSlash(pout.path) => HasDoubleSlash(pin.path)


\* the calls of standardize_url made so far
StandardizeCalls == {i \in 1..Len(u_ret) : u_ret[i].fn = "standardize_url"}

\* an absolute url written without spaces
IsAbsolute(u) ==
  /\ SelectSeq(u, IsNotSpace) = u
  /\ urlparse(u).scheme # <<>>
  /\ urlparse(u).netloc # <<>>

\* urls a and b differ at most in the trailing slashes of their paths
SameButSlashes(a, b) ==
  /\ urlparse(a).scheme = urlparse(b).scheme
  /\ urlparse(a).netloc = urlparse(b).netloc
  /\ RStrip(urlparse(a).path, "/") = RStrip(urlparse(b).path, "/")
  /\ urlparse(a).params = urlparse(b).params
  /\ urlparse(a).query = urlparse(b).query
  /\ urlparse(a).fragment = urlparse(b).fragment

\* C21 as claimed, for absolute urls without spaces: the url standardize_url
\* returns has the scheme, host, params, query and fragment of its argument
\* and the argument's path without its trailing slashes; the argument and
\* the returned url, two urls, standardize to the same value exactly when
\* they differ only in trailing slashes of the path.
C21_Original ==
  \A i \in StandardizeCalls :
    IsAbsolute(u_ret[i].arg) =>
      /\ urlparse(u_ret[i].value).scheme = urlparse(u_ret[i].arg).scheme
      /\ urlparse(u_ret[i].value).netloc = urlparse(u_ret[i].arg).netloc
      /\ urlparse(u_ret[i].value).path = RStrip(urlparse(u_ret[i].arg).path, "/")
      /\ urlparse(u_ret[i].value).params = urlparse(u_ret[i].arg).params
      /\ urlparse(u_ret[i].value).query = urlparse(u_ret[i].arg).query
      /\ urlparse(u_ret[i].value).fragment = urlparse(u_ret[i].arg).fragment
      /\ (i > 1 /\ (i - 1) \in StandardizeCalls) =>
            (u_ret[i].value = u_ret[i - 1].value
               <=> SameButSlashes(u_ret[i].arg, u_ret[i - 1].arg))

\* C22 as claimed: standardize_url of a url standardize_url returned is that
\* url again.
C22_Original ==
  \A i \in StandardizeCalls :
    (i > 1 /\ (i - 1) \in StandardizeCalls /\ IsAbsolute(u_ret[i - 1].arg)) =>
       u_ret[i].value = u_ret[i].arg

\* nodes an attempt has classified as succeeded: validate_node ended on a
\* status 200, or the attempt wrote the fields of a status 200 and is closing
\* its page
Classified200 ==
  {n \in NodeIds : outcome[n] = "succeeded"}
  \cup {workers[w].node : w \in {v \in Attempting :
                                   /\ workers[v].pc = "close"
                                   /\ workers[v].response.status = 200}}

\* C23 as claimed: once an attempt has classified a node as succeeded, or the
\* node is exhausted, no step starts another attempt on the node or changes
\* its result fields.
C23_Original ==
  [][\A n \in NodeIds :
       (n \in Classified200 \/ outcome[n] = "exhausted") =>
          /\ attempts'[n] = attempts[n]
          /\ Fields(nodes'[n]) = Fields(nodes[n])]_vars

\* C24 as claimed: an exhausted node has link_validate = false, link_status
\* = -1 and the description of a failed attempt: "No response" or
\* "Exception: <message>".
C24_Original ==
  \A n \in NodeIds :
    outcome[n] = "exhausted" =>
      /\ ~nodes[n].link_validate
      /\ nodes[n].link_status = -1
      /\ nodes[n].link_validate_desc \in
           {DescNoResponse, DescException(MSG_TIMEOUT), DescException(MSG_CLOSED)}

\* worker w is suspended in wait_for_selector with a status 200 response
WaitsOn200(w) ==
  /\ workers[w].pc = "wait"
  /\ workers[w].response.present
  /\ workers[w].response.status = 200

\* C25 as claimed: while an attempt is in goto() or wait_for_selector() it has
\* written no result, and when the wait for "body" fails after a status 200
\* response the node has link_status = -1, link_validate = false and
\* link_validate_desc = "Exception: <message>"; the attempt is one of the 5.
C25_Original ==
  [][\A w \in DOMAIN workers :
       (WaitsOn200(w) /\ workers'[w].pc = "hclose") =>
          /\ Fields(nodes'[workers[w].node]) =
               [link_status |-> -1, link_validate |-> FALSE,
                link_validate_desc |-> DescException(MSG_TIMEOUT)]
          /\ attempts'[workers[w].node] = attempts[workers[w].node]
          /\ workers'[w].retries = workers[w].retries
          /\ workers[w].retries < max_retries]_vars

\* a step in which queue.get() hands node n to a worker
Dequeued(n) == handed'[n] # handed[n]

\* C26 as claimed: validate_node called on a node without url opens no page,
\* makes no attempt, returns at once, and does not leave the node recorded as
\* a failure (link_validate = false with a cause in link_validate_desc).
C26_Original ==
  [][\A n \in NodeIds :
       (nodes[n].url = <<>> /\ Dequeued(n)) =>
          /\ attempts'[n] = 0
          /\ open_pages' <= open_pages
          /\ outcome'[n] = "skipped"
          /\ ~(~nodes'[n].link_validate /\ nodes'[n].link_validate_desc # <<>>)]_vars

\* C26 as amended: validate_node is called on a node without url only in
\* shop.py and only for an L0 or L1 node; the call opens no page, makes no
\* attempt and returns without suspending, the item done; it leaves
\* (true, -1, "L0 has no link by design") on an L0 node and
\* (false, -1, "Has no link") on an L1 node.
C26_EmptyUrl ==
  [][\A n \in NodeIds :
       (nodes[n].url = <<>> /\ Dequeued(n)) =>
          /\ module = "shop" /\ nodes[n].node_type \in {"L0", "L1"}
          /\ attempts'[n] = 0
          /\ open_pages' <= open_pages
          /\ outcome'[n] = "skipped"
          /\ \A w \in DOMAIN workers' : workers'[w].node # n
          /\ Fields(nodes'[n]) =
               IF nodes[n].node_type = "L0"
               THEN [link_status |-> -1, link_validate |-> TRUE,
                     link_validate_desc |-> DescL0]
               ELSE [link_status |-> -1, link_validate |-> FALSE,
                     link_validate_desc |-> DescL1]]_vars

\* C26 witness: shop.py has run validate_node on an L1 node without url
C26_Witness ==
  /\ module = "shop"
  /\ \E n \in NodeIds :
       /\ nodes[n].url = <<>> /\ nodes[n].node_type = "L1"
       /\ handed[n] = 1 /\ attempts[n] = 0 /\ outcome[n] = "skipped"
       /\ Fields(nodes[n]) = [link_status |-> -1, link_validate |-> FALSE,
                              link_validate_desc |-> <<"Has no link">>]

\* the node whose children list holds n, 0 for a root
ParentOf(n) ==
  IF \E m \in DOMAIN nodes : \E i \in 1..Len(nodes[m].children) : nodes[m].children[i] = n
  THEN CHOOSE m \in DOMAIN nodes :
         \E i \in 1..Len(nodes[m].children) : nodes[m].children[i] = n
  ELSE 0

\* the nodes from a root down to n
RECURSIVE PathTo(_)
PathTo(n) == IF ParentOf(n) = 0 THEN <<n>> ELSE Append(PathTo(ParentOf(n)), n)

IndexIn(s, x) == CHOOSE i \in 1..Len(s) : s[i] = x

\* the list that holds the i-th node of a path
Siblings(path, i) == IF i = 1 THEN roots ELSE nodes[path[i - 1]].children

\* node a comes before node b in the pre-order of the forest: a is an
\* ancestor of b, or where their paths part the branch of a is stored first
BranchesBefore(pa, pb) ==
  \E i \in 1..Min({Len(pa), Len(pb)}) :
    /\ \A k \in 1..(i - 1) : pa[k] = pb[k]
    /\ pa[i] # pb[i]
    /\ IndexIn(Siblings(pa, i), pa[i]) < IndexIn(Siblings(pa, i), pb[i])
PreOrderBefore(a, b) ==
  \/ Len(PathTo(a)) < Len(PathTo(b)) /\ SubSeq(PathTo(b), 1, Len(PathTo(a))) = PathTo(a)
  \/ BranchesBefore(PathTo(a), PathTo(b))

\* the queue holds exactly the nodes of S, in pre-order, numbered 1, 2, ...
\* and each with the total
QueuedInPreOrder(S) ==
  /\ Len(queue) = Cardinality(S)
  /\ {queue[i].node : i \in 1..Len(queue)} = S
  /\ \A i, j \in 1..Len(queue) :
       i < j => PreOrderBefore(queue[i].node, queue[j].node)
  /\ \A i \in 1..Len(queue) : queue[i].idx = i /\ queue[i].total = Len(queue)

\* C27 as claimed: the queue holds exactly the nodes with a non-empty url, in
\* the pre-order of the forest (roots and children in their stored order),
\* the k-th item numbered k and each item carrying the number of items.
C27_Original ==
  cpc = "queued" => QueuedInPreOrder({n \in DOMAIN nodes : nodes[n].url # <<>>})

\* C27 as amended: as claimed, but shop.py also collects the L0 and L1 nodes
\* that have no url.
C27_PreOrder ==
  cpc = "queued" => QueuedInPreOrder({n \in DOMAIN nodes : HasLink(module, nodes[n])})

\* C27 witness: node 1 has the children 2 and 3, node 2 the child 4, all with
\* a url; the queue holds 1, 2, 4, 3 numbered 1 to 4 of 4
C27_Witness ==
  /\ cpc = "queued"
  /\ roots = <<1>> /\ nodes[1].children = <<2, 3>> /\ nodes[2].children = <<4>>
  /\ [i \in 1..Len(queue) |-> queue[i].node] = <<1, 2, 4, 3>>
  /\ \A i \in 1..Len(queue) : queue[i].idx = i /\ queue[i].total = 4

\* node n is in the hands of a worker that is inside validate_node
Held(n) == \E w \in Attempting : workers[w].node = n

\* C28: no step changes the list of roots, the set of nodes, or the name,
\* url, node_type or children of a node; the result fields of a node change
\* only in a step of the validate_node run on that node (the run that
\* starts when the node is dequeued, or the worker that holds it).
C28_Frame ==
  [][/\ roots' = roots
     /\ DOMAIN nodes' = DOMAIN nodes
     /\ \A n \in NodeIds :
          /\ nodes'[n].name = nodes[n].name
          /\ nodes'[n].url = nodes[n].url
          /\ nodes'[n].node_type = nodes[n].node_type
          /\ nodes'[n].children = nodes[n].children
          /\ Fields(nodes'[n]) # Fields(nodes[n]) => (Held(n) \/ Dequeued(n))
          /\ DOMAIN nodes'[n] = DOMAIN nodes[n]]_vars

\* C28 witness: the run is over; a parent was exhausted with "No response"
\* and its child validated, both with their name, url and children
C28_Witness ==
  /\ cpc = "returned"
  /\ roots = <<1>> /\ nodes[1].children = <<2>> /\ nodes[2].children = <<>>
  /\ outcome[1] = "exhausted" /\ nodes[1].link_validate_desc = DescNoResponse
  /\ outcome[2] = "succeeded" /\ nodes[2].link_validate
  /\ \A n \in NodeIds : nodes[n].name = <<"menu">> /\ nodes[n].url = U_SHOP

\* C29: the items not yet marked done are those still in the queue and those
\* inside validate_node, one per worker there; so every dequeued item is
\* marked done once when its validate_node run ends, by a return, an
\* exception or a cancellation. A worker that ends while suspended in
\* queue.get() marks nothing done, and queue.join() returns only with the
\* queue empty and no worker inside validate_node.
C29_DoneOnce ==
  /\ [](Started => unfinished = Len(queue) + Cardinality(Attempting))
  /\ [][\A w \in DOMAIN workers :
          (workers[w].pc = "get" /\ workers'[w].pc \in Ended) =>
             unfinished' = unfinished]_vars
  /\ [][(cpc = "join" /\ cpc' = "gather" /\ ~interrupted') =>
          (queue = <<>> /\ Attempting = {})]_vars

\* C29 witness: one validate_node run raised, another was cancelled by the
\* interrupt, and only the items left in the queue are not marked done
C29_Witness ==
  /\ cpc = "returned" /\ interrupted
  /\ \E n, k \in NodeIds : outcome[n] = "raised" /\ outcome[k] = "abandoned"
  /\ unfinished = Len(queue)

\* the step in which check_link_validity, not interrupted, leaves
\* queue.join() and cancels the worker tasks
CancelsAfterJoin == cpc # "gather" /\ cpc' = "gather" /\ ~interrupted'

\* C30 as claimed: when an uninterrupted run cancels its workers every worker
\* is suspended in queue.get() and holds no node; no validate_node run is cut
\* short.
C30_Original ==
  /\ [][CancelsAfterJoin =>
          \A w \in DOMAIN workers' :
             workers'[w].pc = "get" /\ workers'[w].node = 0]_vars
  /\ [](~interrupted => \A n \in NodeIds : outcome[n] # "abandoned")

\* C30 as amended: when an uninterrupted run cancels its workers every worker
\* holds no node: it is suspended in queue.get(), or it has not run yet,
\* which is the case exactly when nothing was enqueued and queue.join()
\* returned without suspending. No validate_node run is cut short, and at
\* the return no node is left inside one.
C30_CancelIdle ==
  /\ [][CancelsAfterJoin =>
          /\ queue' = <<>> /\ unfinished' = 0
          /\ \A w \in DOMAIN workers' :
               /\ workers'[w].node = 0
               /\ workers'[w].must_cancel
               /\ workers'[w].pc = (IF cpc = "call" THEN "created" ELSE "get")]_vars
  /\ [](~interrupted => \A n \in NodeIds : outcome[n] # "abandoned")
  /\ []((cpc = "returned" /\ ~interrupted) =>
          \A n \in NodeIds : outcome[n] # "running")

\* C30 witness: the queue of two links has drained, the two workers wait in
\* queue.get() and have just been cancelled
C30_Witness ==
  /\ cpc = "gather" /\ ~interrupted
  /\ DOMAIN workers = {1, 2}
  /\ \A w \in DOMAIN workers : workers[w].pc = "get" /\ workers[w].must_cancel
  /\ \A n \in NodeIds : handed[n] = 1 /\ outcome[n] \in {"succeeded", "http", "exhausted"}

=============================================================================
